---------------------------- MODULE Spec2Model ----------------------------
(***************************************************************************)
(* Model of .github/scripts/branch_protection_audit.py: the sequential     *)
(* pipeline list_repos -> per-repository check -> CSV write -> Slack       *)
(* notification.  JSON payloads are tagged values so that Python           *)
(* truthiness, dict.get and None are modelled by what they do.             *)
(***************************************************************************)
EXTENDS Integers, Sequences, FiniteSets, TLC

VARIABLES
    SLACK_TOKEN, SLACK_CHANNEL, SLACK_WEBHOOK,  \* module-level configuration
    pc,             \* position of main(): list_repos, loop, notify, done, aborted
    page, repos,    \* locals of list_repos
    active_repos,   \* value returned by list_repos (main's repos)
    idx,            \* number of loop iterations of main completed
    rows, missing, ok,
    rules, classic, row, issues,   \* locals of main left by the latest iteration
    csv_file,       \* content of results.csv, JNull when it was not written
    uploaded,
    trace           \* every call of a network helper so far, with its outcome

vars == <<SLACK_TOKEN, SLACK_CHANNEL, SLACK_WEBHOOK, pc, page, repos,
          active_repos, idx, rows, missing, ok, rules, classic, row, issues,
          csv_file, uploaded, trace>>

-----------------------------------------------------------------------------
(* Bounds of the model *)

MaxRepos == 2     \* non-archived repositories the organisation has at most
MaxPages == 2     \* listing pages the upstream serves at most
MaxCount == 2     \* approval counts in API payloads range over 0..MaxCount

(* per_page=100 of the listing URL and the len(data) < 100 test *)
PerPage == 100

-----------------------------------------------------------------------------
(* JSON values and the Python operations the script applies to them *)

JNull == [t |-> "null"]
JBool(b) == [t |-> "bool", v |-> b]
JInt(n) == [t |-> "int", v |-> n]
JStr(s) == [t |-> "str", v |-> s]
JList(s) == [t |-> "list", v |-> s]
JDict(f) == [t |-> "dict", v |-> f]

\* bool(x): None, False, 0, "", [] and {} are falsy
Truthy(j) ==
    CASE j.t = "null" -> FALSE
      [] j.t = "bool" -> j.v
      [] j.t = "int"  -> j.v # 0
      [] j.t = "str"  -> j.v # ""
      [] j.t = "list" -> Len(j.v) # 0
      [] j.t = "dict" -> DOMAIN j.v # {}

\* x or y
Or(x, y) == IF Truthy(x) THEN x ELSE y

\* d.get(k, default) and d.get(k)
GetDefault(d, k, default) == IF k \in DOMAIN d.v THEN d.v[k] ELSE default
Get(d, k) == GetDefault(d, k, JNull)

\* str(int(n)) and the f-string rendering of an integer
Str(j) == ToString(j.v)

\* a dict literal with some keys left out
Absent == [t |-> "absent"]
MkDict(f) == JDict([k \in {x \in DOMAIN f : f[x] # Absent} |-> f[k]])

-----------------------------------------------------------------------------
(* HTTP responses: a transport failure (timeout, connection error) makes    *)
(* requests.get raise, as a body that is not JSON makes r.json() raise;     *)
(* otherwise there is a status and a decoded body.                          *)

Raised == [kind |-> "raise"]
Http(status, body) == [kind |-> "http", status |-> status, body |-> body]
FailStatuses == {404, 500}
Outcome(resp) ==
    IF resp.kind = "raise" THEN "raise"
    ELSE IF resp.status = 200 THEN "200" ELSE "non200"

\* get_json, for a response that arrived
get_json(resp) == IF resp.status = 200 THEN resp.body ELSE JNull

\* get_rules
get_rules(resp) == Or(get_json(resp), JList(<<>>))

\* try_get_classic_protection, for a response that arrived
try_get_classic_protection(resp) == IF resp.status = 200 THEN resp.body ELSE JNull

-----------------------------------------------------------------------------
(* The upstream organisation: what the listing endpoint can answer *)

\* the i-th non-archived repository of the organisation
ActiveRepo(i) ==
    IF i = 1
    THEN JDict([name |-> JStr("repo1"), default_branch |-> JStr("develop"),
                archived |-> JBool(FALSE)])
    ELSE IF i = 2
    THEN JDict([name |-> JStr("repo2"), archived |-> JBool(FALSE)])
    ELSE JDict([name |-> JStr("repo" \o ToString(i)),
                default_branch |-> JStr("main")])

ArchivedRepo(n) ==
    JDict([name |-> JStr("old" \o ToString(n)), default_branch |-> JStr("main"),
           archived |-> JBool(TRUE)])

\* a page of the listing: the next j non-archived repositories, then archived
\* ones up to its length; only a page before the last one can be full
PageData(p, seen) ==
    { [i \in 1..jl[2] |-> IF i <= jl[1] THEN ActiveRepo(seen + i)
                          ELSE ArchivedRepo((p - 1) * PerPage + i)] :
        jl \in { x \in (0..(MaxRepos - seen)) \X {0, 1, PerPage - 1, PerPage} :
                   /\ x[2] >= x[1]
                   /\ x[2] = PerPage => p < MaxPages } }

PageResponses(p, seen) ==
    {Http(s, JNull) : s \in FailStatuses}
        \cup {Http(200, JList(d)) : d \in PageData(p, seen)}

-----------------------------------------------------------------------------
(* list_repos *)

\* not r.get("archived", False)
IsActive(r) == ~Truthy(GetDefault(r, "archived", JBool(FALSE)))

\* active_repos = [r for r in repos if not r.get("archived", False)]
ActiveOf(rs) == SelectSeq(rs, IsActive)

\* repos += data, skipped by the break on "not data"
Accumulate(rs, data) == IF Truthy(data) THEN rs \o data.v ELSE rs

\* the loop goes on to page + 1 unless "not data" or len(data) < 100 breaks it
MorePages(data) == Truthy(data) /\ ~(Len(data.v) < PerPage)

\* what a listing request brought: a failure, or a page by its size
PageKind(resp) ==
    IF resp.kind = "raise" THEN "raise"
    ELSE IF resp.status # 200 THEN "non200"
    ELSE IF Len(resp.body.v) = 0 THEN "empty"
    ELSE IF Len(resp.body.v) < PerPage THEN "short"
    ELSE "full"

ListEntry(p, resp) == [call |-> "list", page |-> p, outcome |-> PageKind(resp)]

\* one iteration of the while loop; the iteration that breaks also returns
FetchPage ==
    /\ pc = "list_repos"
    /\ page <= MaxPages
    /\ \E resp \in PageResponses(page, Len(ActiveOf(repos))) :
         LET data == get_json(resp)
             got == Accumulate(repos, data)
         IN /\ trace' = Append(trace, ListEntry(page, resp))
            /\ IF MorePages(data)
               THEN /\ repos' = got
                    /\ page' = page + 1
                    /\ UNCHANGED <<pc, active_repos>>
               ELSE /\ active_repos' = ActiveOf(got)
                    /\ pc' = "loop"
                    /\ repos' = <<>>
                    /\ page' = 1
    /\ UNCHANGED <<SLACK_TOKEN, SLACK_CHANNEL, SLACK_WEBHOOK, idx, rows, missing,
                   ok, rules, classic, row, issues, csv_file, uploaded>>

\* requests.get raises inside get_json: nothing catches it, main() ends there
FetchPageRaises ==
    /\ pc = "list_repos"
    /\ page <= MaxPages
    /\ trace' = Append(trace, ListEntry(page, Raised))
    /\ pc' = "aborted"
    /\ repos' = <<>>
    /\ page' = 1
    /\ UNCHANGED <<SLACK_TOKEN, SLACK_CHANNEL, SLACK_WEBHOOK, active_repos, idx,
                   rows, missing, ok, rules, classic, row, issues, csv_file,
                   uploaded>>

-----------------------------------------------------------------------------
(* The loop body of main: building one row *)

fieldnames ==
    <<"Repository", "Default Branch", "Default branch protection exists",
      "Required pull request", "Required approvals count", "Restrict deletions",
      "Block Force pushes">>

\* the row literal of lines 108-116
NewRow(name, default_branch) ==
    [k \in {fieldnames[i] : i \in 1..Len(fieldnames)} |->
        CASE k = "Repository" -> name
          [] k = "Default Branch" -> default_branch
          [] k = "Required approvals count" -> ""
          [] OTHER -> "NO"]

\* row[k] = v and issues.append(msg), on the pair of locals (row, issues)
SetCol(st, k, v) == [st EXCEPT !.row = [@ EXCEPT ![k] = v]]
AddIssue(st, msg) == [st EXCEPT !.issues = Append(@, msg)]

EmptyDict == JDict([k \in {} |-> JNull])

\* rule_types = {r.get("type"): r for r in rules}: a later rule of a type
\* replaces an earlier one
rule_types(rs) ==
    [ty \in {Get(rs[i], "type") : i \in 1..Len(rs)} |->
        rs[CHOOSE i \in 1..Len(rs) :
              /\ Get(rs[i], "type") = ty
              /\ \A j \in (i + 1)..Len(rs) : Get(rs[j], "type") # ty]]

HasRule(rt, ty) == JStr(ty) \in DOMAIN rt

CheckPullRequest(st, rt) ==
    IF HasRule(rt, "pull_request")
    THEN SetCol(st, "Required pull request", "YES")
    ELSE AddIssue(st, "Require pull request before merging not enabled")

\* mutant: the second parameter key is forgotten
ExtractCount_FirstKeyOnly(rule) ==
    Get(Or(Get(rule, "parameters"), EmptyDict), "required_approving_review_count")

\* params.get("required_approving_review_count") or params.get("count")
ExtractCount(rule) ==
    LET params == Or(Get(rule, "parameters"), EmptyDict)
    IN Or(Get(params, "required_approving_review_count"), Get(params, "count"))

MismatchIssue(cnt) == "Required approvals = " \o Str(cnt) \o ", expected 2"

CheckApprovals(st, rt) ==
    IF HasRule(rt, "required_approving_review_count")
    THEN LET count == ExtractCount(rt[JStr("required_approving_review_count")])
         IN IF Truthy(count)
            THEN LET st1 == SetCol(st, "Required approvals count", Str(count))
                 IN IF count.v # 2 THEN AddIssue(st1, MismatchIssue(count)) ELSE st1
            ELSE AddIssue(st, "Approvals rule present but count missing")
    ELSE AddIssue(st, "Required approving reviews rule missing")

\* mutant: a missing rule is not reported
CheckRestrictDeletions_NoIssue(st, rt) ==
    IF HasRule(rt, "restrict_deletions")
    THEN SetCol(st, "Restrict deletions", "YES")
    ELSE st

CheckRestrictDeletions(st, rt) ==
    IF HasRule(rt, "restrict_deletions")
    THEN SetCol(st, "Restrict deletions", "YES")
    ELSE AddIssue(st, "Restrict deletions rule not enabled")

CheckNonFastForward(st, rt) ==
    IF HasRule(rt, "non_fast_forward")
    THEN SetCol(st, "Block Force pushes", "YES")
    ELSE AddIssue(st, "Block force pushes rule not enabled")

\* lines 153-181: the row and the issues of a non-empty rules result
ModernPath(r0, rs) ==
    LET rt == rule_types(rs.v)
        st0 == [row |-> [r0 EXCEPT !["Default branch protection exists"] = "YES"],
                issues |-> <<>>]
    IN CheckNonFastForward(
         CheckRestrictDeletions(
           CheckApprovals(CheckPullRequest(st0, rt), rt), rt), rt)

\* lines 125-133
ClassicReviews(st, cl) ==
    LET pr_reviews == Get(cl, "required_pull_request_reviews")
    IN IF ~Truthy(pr_reviews)
       THEN AddIssue(st, "Require pull request before merging not enabled")
       ELSE LET cnt == GetDefault(pr_reviews, "required_approving_review_count", JInt(0))
                st1 == SetCol(st, "Required pull request", "YES")
                st2 == SetCol(st1, "Required approvals count",
                              IF Truthy(cnt) THEN Str(cnt) ELSE "")
            IN IF cnt.v # 2 THEN AddIssue(st2, MismatchIssue(cnt)) ELSE st2

\* lines 135-136
ClassicRestrictions(st, cl) ==
    IF Truthy(Get(cl, "restrictions"))
    THEN SetCol(st, "Restrict deletions", "YES")
    ELSE st

\* lines 138-140
ClassicForcePushes(st, cl) ==
    IF "allow_force_pushes" \in DOMAIN cl.v /\ ~Truthy(Get(cl, "allow_force_pushes"))
    THEN SetCol(st, "Block Force pushes", "YES")
    ELSE st

\* lines 124-140: the row and the issues of a classic protection object
ClassicPath(r0, cl) ==
    LET st0 == [row |-> [r0 EXCEPT !["Default branch protection exists"] = "YES"],
                issues |-> <<>>]
    IN ClassicForcePushes(ClassicRestrictions(ClassicReviews(st0, cl), cl), cl)

\* line 149: the issue list recorded when neither endpoint gave anything
NoProtection(default_branch) ==
    <<"No branch protection found on '" \o default_branch \o "'">>

\* if issues: missing.append({...}) else: ok.append(name)
Partition(name, iss, lists) ==
    IF Len(iss) # 0
    THEN [lists EXCEPT !.missing = Append(@, [repo |-> name, issues |-> iss])]
    ELSE [lists EXCEPT !.ok = Append(@, name)]

\* mutant: the row is put first
AppendRow_Front(rs, r) == <<r>> \o rs

\* rows.append(row)
AppendRow(rs, r) == Append(rs, r)

-----------------------------------------------------------------------------
(* What the rules and the classic-protection endpoints can answer *)

Rule(ty) == JDict([type |-> JStr(ty)])

\* parameters of an approvals rule; a negative argument leaves the key out
ParamDict(a, b) ==
    MkDict([required_approving_review_count |-> IF a < 0 THEN Absent ELSE JInt(a),
            count |-> IF b < 0 THEN Absent ELSE JInt(b)])

ApprovalRule(params) ==
    MkDict([type |-> JStr("required_approving_review_count"), parameters |-> params])

ApprovalRules ==
    {ApprovalRule(p) :
        p \in {Absent, JNull}
                \cup {ParamDict(a, b) : a \in -1..MaxCount, b \in -1..MaxCount}}

PlainTypes ==
    <<"pull_request", "restrict_deletions", "non_fast_forward", "required_signatures">>

\* the rules of the types in S, in the order of PlainTypes
PlainRules(S) ==
    LET In(ty) == ty \in S
        chosen == SelectSeq(PlainTypes, In)
    IN [i \in 1..Len(chosen) |-> Rule(chosen[i])]

\* rule lists: any subset of the plain rule types and up to two approvals rules
\* (two rule sets that apply to one branch each bring their own)
RichRuleLists ==
    { PlainRules(S) \o ap :
        S \in SUBSET {PlainTypes[i] : i \in 1..Len(PlainTypes)},
        ap \in {<<>>} \cup {<<a>> : a \in ApprovalRules}
                     \cup {<<a, b>> : a \in ApprovalRules, b \in ApprovalRules} }

RichRules ==
    {Http(s, JNull) : s \in FailStatuses} \cup {Http(200, JList(l)) : l \in RichRuleLists}

ReviewsChoices ==
    {Absent, JNull, EmptyDict, JDict([dismiss_stale_reviews |-> JBool(TRUE)])}
        \cup {JDict([required_approving_review_count |-> JInt(c)]) : c \in 0..MaxCount}

RestrictionsChoices ==
    {Absent, JNull, JDict([users |-> JList(<<>>), teams |-> JList(<<>>)])}

ForcePushChoices ==
    {Absent, JBool(FALSE), JBool(TRUE), JDict([enabled |-> JBool(FALSE)])}

RichClassic ==
    {Http(s, JNull) : s \in FailStatuses}
        \cup { Http(200, MkDict([required_pull_request_reviews |-> pr,
                                 restrictions |-> re,
                                 allow_force_pushes |-> fp])) :
                 pr \in ReviewsChoices, re \in RestrictionsChoices,
                 fp \in ForcePushChoices }

\* the answers the whole-run specification draws from
FullRules(c) ==
    <<Rule("pull_request"), ApprovalRule(ParamDict(c, -1)), Rule("restrict_deletions"),
      Rule("non_fast_forward")>>

SmallRules ==
    {Http(s, JNull) : s \in FailStatuses}
        \cup {Http(200, JList(FullRules(2))),
              Http(200, JList(<<Rule("pull_request"), ApprovalRule(ParamDict(2, -1)),
                                Rule("non_fast_forward")>>))}

SmallClassic ==
    {Http(s, JNull) : s \in FailStatuses}
        \cup {Http(200, JDict([required_pull_request_reviews |->
                                   JDict([required_approving_review_count |-> JInt(2)]),
                               restrictions |-> JDict([users |-> JList(<<>>)]),
                               allow_force_pushes |-> JBool(FALSE)])),
              Http(200, JDict([required_pull_request_reviews |-> JNull,
                               allow_force_pushes |-> JBool(TRUE)]))}

-----------------------------------------------------------------------------
(* The for loop of main: one action per way through the body *)

Repo == active_repos[idx + 1]
Name == Repo.v["name"].v
DefaultBranch == GetDefault(Repo, "default_branch", JStr("main")).v

CallEntry(call, resp) == [call |-> call, repo |-> Name, outcome |-> Outcome(resp)]

\* the end of an iteration that built a row from a response
Record(st) ==
    LET lists == Partition(Name, st.issues, [missing |-> missing, ok |-> ok])
    IN /\ row' = st.row
       /\ issues' = st.issues
       /\ missing' = lists.missing
       /\ ok' = lists.ok
       /\ rows' = AppendRow(rows, st.row)
       /\ idx' = idx + 1

InLoop == pc = "loop" /\ idx < Len(active_repos)

\* get_rules raises: main() ends there
CheckRulesRaises ==
    /\ InLoop
    /\ trace' = Append(trace, CallEntry("rules", Raised))
    /\ pc' = "aborted"
    /\ UNCHANGED <<SLACK_TOKEN, SLACK_CHANNEL, SLACK_WEBHOOK, page, repos,
                   active_repos, idx, rows, missing, ok, rules, classic, row,
                   issues, csv_file, uploaded>>

\* lines 104-121 and 153-188: the rules result is not empty
CheckModern(RS) ==
    /\ InLoop
    /\ \E resp \in RS :
         LET rs == get_rules(resp)
         IN /\ Truthy(rs)
            /\ rules' = rs
            /\ trace' = Append(trace, CallEntry("rules", resp))
            /\ Record(ModernPath(NewRow(Name, DefaultBranch), rs))
    /\ UNCHANGED <<SLACK_TOKEN, SLACK_CHANNEL, SLACK_WEBHOOK, pc, page, repos,
                   active_repos, classic, csv_file, uploaded>>

\* lines 104-122: the rules result is empty and try_get_classic_protection raises
CheckClassicRaises(RS) ==
    /\ InLoop
    /\ \E resp \in RS :
         LET rs == get_rules(resp)
         IN /\ ~Truthy(rs)
            /\ rules' = rs
            /\ row' = NewRow(Name, DefaultBranch)
            /\ issues' = <<>>
            /\ trace' = trace \o <<CallEntry("rules", resp), CallEntry("classic", Raised)>>
    /\ pc' = "aborted"
    /\ UNCHANGED <<SLACK_TOKEN, SLACK_CHANNEL, SLACK_WEBHOOK, page, repos,
                   active_repos, idx, rows, missing, ok, classic, csv_file, uploaded>>

\* mutant: the classic protection is queried whatever the rules result
CheckClassic_Always(RS, CS) ==
    /\ InLoop
    /\ \E resp \in RS, cresp \in CS :
         LET rs == get_rules(resp)
             cl == try_get_classic_protection(cresp)
         IN /\ Truthy(cl)
            /\ rules' = rs
            /\ classic' = cl
            /\ trace' = trace \o <<CallEntry("rules", resp), CallEntry("classic", cresp)>>
            /\ Record(ClassicPath(NewRow(Name, DefaultBranch), cl))
    /\ UNCHANGED <<SLACK_TOKEN, SLACK_CHANNEL, SLACK_WEBHOOK, pc, page, repos,
                   active_repos, csv_file, uploaded>>

\* lines 104-147: the rules result is empty and there is a classic protection
CheckClassic(RS, CS) ==
    /\ InLoop
    /\ \E resp \in RS, cresp \in CS :
         LET rs == get_rules(resp)
             cl == try_get_classic_protection(cresp)
         IN /\ ~Truthy(rs)
            /\ Truthy(cl)
            /\ rules' = rs
            /\ classic' = cl
            /\ trace' = trace \o <<CallEntry("rules", resp), CallEntry("classic", cresp)>>
            /\ Record(ClassicPath(NewRow(Name, DefaultBranch), cl))
    /\ UNCHANGED <<SLACK_TOKEN, SLACK_CHANNEL, SLACK_WEBHOOK, pc, page, repos,
                   active_repos, csv_file, uploaded>>

\* lines 104-123 and 149-151: neither endpoint gave anything
CheckNone(RS, CS) ==
    /\ InLoop
    /\ \E resp \in RS, cresp \in CS :
         LET rs == get_rules(resp)
             cl == try_get_classic_protection(cresp)
         IN /\ ~Truthy(rs)
            /\ ~Truthy(cl)
            /\ rules' = rs
            /\ classic' = cl
            /\ trace' = trace \o <<CallEntry("rules", resp), CallEntry("classic", cresp)>>
            /\ row' = NewRow(Name, DefaultBranch)
            /\ issues' = <<>>
            /\ missing' = Append(missing, [repo |-> Name,
                                           issues |-> NoProtection(DefaultBranch)])
            /\ rows' = AppendRow(rows, NewRow(Name, DefaultBranch))
            /\ idx' = idx + 1
    /\ UNCHANGED <<SLACK_TOKEN, SLACK_CHANNEL, SLACK_WEBHOOK, pc, page, repos,
                   active_repos, ok, csv_file, uploaded>>

-----------------------------------------------------------------------------
(* Writing results.csv *)

\* DictWriter: the header, then each row's values in the order of fieldnames
CsvOf(rs) ==
    JList(<<fieldnames>>
            \o [i \in 1..Len(rs) |-> [j \in 1..Len(fieldnames) |-> rs[i][fieldnames[j]]]])

AfterLoop == pc = "loop" /\ idx = Len(active_repos)

WriteCsv ==
    /\ AfterLoop
    /\ csv_file' = CsvOf(rows)
    /\ pc' = "notify"
    /\ UNCHANGED <<SLACK_TOKEN, SLACK_CHANNEL, SLACK_WEBHOOK, page, repos,
                   active_repos, idx, rows, missing, ok, rules, classic, row,
                   issues, uploaded, trace>>

\* mutant: the exception of a failed write is not caught
WriteCsvFails_Propagates ==
    /\ AfterLoop
    /\ pc' = "aborted"
    /\ UNCHANGED <<SLACK_TOKEN, SLACK_CHANNEL, SLACK_WEBHOOK, page, repos,
                   active_repos, idx, rows, missing, ok, rules, classic, row,
                   issues, csv_file, uploaded, trace>>

\* what a failed write leaves: no file when open raised, else the lines
\* written before the failure
PartialCsv(rs) ==
    {JNull} \cup {JList(SubSeq(CsvOf(rs).v, 1, n)) : n \in 0..Len(rs)}

\* open or a write raises: the except clause logs a warning and main goes on
WriteCsvFails ==
    /\ AfterLoop
    /\ csv_file' \in PartialCsv(rows)
    /\ pc' = "notify"
    /\ UNCHANGED <<SLACK_TOKEN, SLACK_CHANNEL, SLACK_WEBHOOK, page, repos,
                   active_repos, idx, rows, missing, ok, rules, classic, row,
                   issues, uploaded, trace>>

-----------------------------------------------------------------------------
(* The notifier, lines 211-226 *)

\* mutant: "or" in place of "and"
BotConfigured_Or == Truthy(SLACK_TOKEN) \/ Truthy(SLACK_CHANNEL)

\* SLACK_TOKEN and SLACK_CHANNEL
BotConfigured == Truthy(SLACK_TOKEN) /\ Truthy(SLACK_CHANNEL)

\* upload_csv_to_slack: open fails when there is no file (no request is made),
\* the post raises, or the answer has ok true, ok false, or is not JSON
UploadOutcomes ==
    IF csv_file = JNull THEN {"open_fails"}
    ELSE {"post_raises", "ok_true", "ok_false", "bad_json"}

upload_csv_to_slack ==
    /\ pc = "notify"
    /\ BotConfigured
    /\ \E out \in UploadOutcomes :
         /\ uploaded' = (out = "ok_true")
         /\ trace' = Append(trace, [call |-> "upload", outcome |-> out])
    /\ pc' = "done"
    /\ UNCHANGED <<SLACK_TOKEN, SLACK_CHANNEL, SLACK_WEBHOOK, page, repos,
                   active_repos, idx, rows, missing, ok, rules, classic, row,
                   issues, csv_file>>

\* post_webhook: its result is dropped, uploaded stays False
post_webhook ==
    /\ pc = "notify"
    /\ ~BotConfigured
    /\ Truthy(SLACK_WEBHOOK)
    /\ \E out \in {"post_raises", "200", "non200"} :
         trace' = Append(trace, [call |-> "webhook", outcome |-> out])
    /\ pc' = "done"
    /\ UNCHANGED <<SLACK_TOKEN, SLACK_CHANNEL, SLACK_WEBHOOK, page, repos,
                   active_repos, idx, rows, missing, ok, rules, classic, row,
                   issues, csv_file, uploaded>>

NoNotification ==
    /\ pc = "notify"
    /\ ~BotConfigured
    /\ ~Truthy(SLACK_WEBHOOK)
    /\ pc' = "done"
    /\ UNCHANGED <<SLACK_TOKEN, SLACK_CHANNEL, SLACK_WEBHOOK, page, repos,
                   active_repos, idx, rows, missing, ok, rules, classic, row,
                   issues, csv_file, uploaded, trace>>

-----------------------------------------------------------------------------
(* The whole run, on the small answer sets *)

Init ==
    /\ SLACK_TOKEN \in {JNull, JStr(""), JStr("xoxb")}
    /\ SLACK_CHANNEL \in {JNull, JStr("C01")}
    /\ SLACK_WEBHOOK \in {JStr(""), JStr("https://hooks")}
    /\ pc = "list_repos"
    /\ page = 1
    /\ repos = <<>>
    /\ active_repos = <<>>
    /\ idx = 0
    /\ rows = <<>>
    /\ missing = <<>>
    /\ ok = <<>>
    /\ rules = JNull
    /\ classic = JNull
    /\ row = JNull
    /\ issues = <<>>
    /\ csv_file = JNull
    /\ uploaded = FALSE
    /\ trace = <<>>

CheckModernSmall == CheckModern(SmallRules)
CheckClassicRaisesSmall == CheckClassicRaises(SmallRules)
CheckClassicSmall == CheckClassic(SmallRules, SmallClassic)
CheckNoneSmall == CheckNone(SmallRules, SmallClassic)

Next ==
    \/ FetchPage
    \/ FetchPageRaises
    \/ CheckRulesRaises
    \/ CheckModernSmall
    \/ CheckClassicRaisesSmall
    \/ CheckClassicSmall
    \/ CheckNoneSmall
    \/ WriteCsv
    \/ WriteCsvFails
    \/ upload_csv_to_slack
    \/ post_webhook
    \/ NoNotification

Spec == Init /\ [][Next]_vars

-----------------------------------------------------------------------------
(* The loop body alone, on the full answer sets: main() has just got one    *)
(* repository from list_repos                                               *)

InitChecker ==
    /\ SLACK_TOKEN = JNull
    /\ SLACK_CHANNEL = JNull
    /\ SLACK_WEBHOOK = JNull
    /\ pc = "loop"
    /\ page = 1
    /\ repos = <<>>
    /\ active_repos \in {<<ActiveRepo(i)>> : i \in 1..3}
    /\ idx = 0
    /\ rows = <<>>
    /\ missing = <<>>
    /\ ok = <<>>
    /\ rules = JNull
    /\ classic = JNull
    /\ row = JNull
    /\ issues = <<>>
    /\ csv_file = JNull
    /\ uploaded = FALSE
    /\ trace = <<[call |-> "list", page |-> 1, outcome |-> "short"]>>

CheckModernRich == CheckModern(RichRules)
CheckClassicRaisesRich == CheckClassicRaises(RichRules)
CheckClassicRich == CheckClassic(RichRules, RichClassic)
CheckNoneRich == CheckNone(RichRules, RichClassic)

NextChecker ==
    \/ CheckRulesRaises
    \/ CheckModernRich
    \/ CheckClassicRaisesRich
    \/ CheckClassicRich
    \/ CheckNoneRich

SpecChecker == InitChecker /\ [][NextChecker]_vars

-----------------------------------------------------------------------------
(* Reading the history and the rows *)

IsList(e) == e.call = "list"
IsRules(e) == e.call = "rules"
IsClassic(e) == e.call = "classic"
IsUpload(e) == e.call = "upload"
IsWebhook(e) == e.call = "webhook"

Listing == SelectSeq(trace, IsList)
Uploads == SelectSeq(trace, IsUpload)
Webhooks == SelectSeq(trace, IsWebhook)

NameOf(r) == r.v["name"].v
BranchOf(r) == IF "default_branch" \in DOMAIN r.v THEN r.v["default_branch"].v ELSE "main"

InOk(n) == \E j \in 1..Len(ok) : ok[j] = n
InMissing(n) == \E j \in 1..Len(missing) : missing[j].repo = n
IssuesOf(n) == missing[CHOOSE j \in 1..Len(missing) : missing[j].repo = n].issues
Has(seq, x) == \E j \in 1..Len(seq) : seq[j] = x

\* an iteration has completed and the locals rules, classic, row and issues
\* are the ones it left
Completed == idx > 0 /\ pc # "aborted"
OnModern == Completed /\ Truthy(rules)
OnClassic == Completed /\ ~Truthy(rules) /\ Truthy(classic)
OnNone == Completed /\ ~Truthy(rules) /\ ~Truthy(classic)

\* the rules of a type in the rules result, and the approvals rule that counts:
\* the last one listed
RulesOfType(ty) == {i \in 1..Len(rules.v) : rules.v[i].v["type"].v = ty}
Present(ty) == RulesOfType(ty) # {}
LastOfType(ty) ==
    rules.v[CHOOSE i \in RulesOfType(ty) : \A j \in RulesOfType(ty) : j <= i]

\* the count read from a rule's parameters: the first key when it is there and
\* not zero, else the second key; 0 when nothing is read
ReadCount(rule) ==
    LET p == IF "parameters" \in DOMAIN rule.v /\ rule.v["parameters"].t = "dict"
             THEN rule.v["parameters"].v
             ELSE [k \in {} |-> JInt(0)]
        a == IF "required_approving_review_count" \in DOMAIN p
             THEN p["required_approving_review_count"].v ELSE 0
        b == IF "count" \in DOMAIN p THEN p["count"].v ELSE 0
    IN IF a # 0 THEN a ELSE b

ApprovalsCount ==
    IF Present("required_approving_review_count")
    THEN ReadCount(LastOfType("required_approving_review_count"))
    ELSE 0

ApprovalIssues ==
    {"Approvals rule present but count missing", "Required approving reviews rule missing"}
        \cup {"Required approvals = " \o ToString(n) \o ", expected 2" : n \in 0..(MaxCount + 1)}

-----------------------------------------------------------------------------
(* C1 *)

\* C1: no fetch failure aborts main(): whichever way a listing, rules or
\* classic-protection request fails, the run goes on and completes; there is
\* no reachable state in which main() was ended by a fetch failure.
C1_NoFetchAborts == pc # "aborted"

-----------------------------------------------------------------------------
(* C2 *)

TokenAndChannel == Truthy(SLACK_TOKEN) /\ Truthy(SLACK_CHANNEL)

\* C2: at most one notification path is attempted in a run.  With token and
\* channel both configured only the upload is attempted and the webhook is
\* never posted to, whether or not a webhook URL is set and whether or not
\* the upload succeeds; the webhook is posted to only when the pair is not
\* fully configured and a webhook URL is; with neither, nothing is attempted.
C2_NotifierExclusive ==
    /\ Len(Uploads) + Len(Webhooks) <= 1
    /\ TokenAndChannel => Len(Webhooks) = 0
    /\ Len(Uploads) = 1 => TokenAndChannel
    /\ Len(Webhooks) = 1 => ~TokenAndChannel /\ Truthy(SLACK_WEBHOOK)
    /\ ~TokenAndChannel /\ ~Truthy(SLACK_WEBHOOK) => Len(Uploads) + Len(Webhooks) = 0
    /\ pc = "done" /\ TokenAndChannel => Len(Uploads) = 1
    /\ pc = "done" /\ ~TokenAndChannel /\ Truthy(SLACK_WEBHOOK) => Len(Webhooks) = 1
    /\ pc # "done" => Len(Uploads) + Len(Webhooks) = 0

\* token, channel and webhook all set, the upload was attempted and failed
C2_Witness ==
    /\ pc = "done"
    /\ TokenAndChannel
    /\ Truthy(SLACK_WEBHOOK)
    /\ Len(Uploads) = 1
    /\ Uploads[1].outcome = "ok_false"
    /\ ~uploaded

-----------------------------------------------------------------------------
(* C3 *)

Failed(e) == e.outcome \in {"non200", "raise"}

\* the pages are requested in increasing order from 1 and nothing is
\* requested after the first page that is short, empty or failed
C3_Pagination ==
    /\ \A i \in 1..Len(Listing) : Listing[i].page = i
    /\ \A i \in 1..(Len(Listing) - 1) : Listing[i].outcome = "full"
    /\ pc = "list_repos" => page = Len(Listing) + 1
    /\ Len(Listing) > 0 /\ Listing[Len(Listing)].outcome # "full" => pc # "list_repos"

\* C3: pagination stops at the first page that has fewer than 100 entries, is
\* empty or failed: pages 1..k are requested in increasing order and page
\* k+1 never is; a failed page keeps the entries of the earlier pages and
\* raises no error, so list_repos returns.
C3_PaginationStops ==
    /\ C3_Pagination
    /\ \A i \in 1..Len(Listing) : Failed(Listing[i]) => pc # "aborted"

\* a page that failed with a status other than 200 ends list_repos with the
\* non-archived entries of the earlier pages
C3_Non200KeepsEntries ==
    [][pc = "list_repos" /\ Len(trace') > Len(trace)
          /\ trace'[Len(trace')].outcome = "non200"
        => pc' = "loop" /\ active_repos' = ActiveOf(repos)]_vars

-----------------------------------------------------------------------------
(* C4 *)

NoProtectionRecorded(n) ==
    \E k \in 1..Len(rows) :
        /\ k <= Len(active_repos)
        /\ NameOf(active_repos[k]) = n
        /\ rows[k]["Repository"] = n
        /\ rows[k]["Default Branch"] = BranchOf(active_repos[k])
        /\ rows[k]["Default branch protection exists"] = "NO"
        /\ rows[k]["Required pull request"] = "NO"
        /\ rows[k]["Required approvals count"] = ""
        /\ rows[k]["Restrict deletions"] = "NO"
        /\ rows[k]["Block Force pushes"] = "NO"
        /\ ~InOk(n)
        /\ Cardinality({j \in 1..Len(missing) : missing[j].repo = n}) = 1
        /\ IssuesOf(n) = <<"No branch protection found on '"
                              \o BranchOf(active_repos[k]) \o "'">>

\* C4: every repository whose rules query gave an empty or no result and whose
\* classic-protection query gave no 200 response (404 or any other failure)
\* has a record with "NO" in the four flag columns and an empty count, and is
\* in the non-compliant list with the single issue
\* "No branch protection found on '<branch>'".
C4_NoProtectionRecord ==
    \A i \in 1..Len(trace) :
        IsClassic(trace[i]) /\ trace[i].outcome # "200"
            => NoProtectionRecorded(trace[i].repo)

\* the same for the classic queries that were answered with a status
C4_Non200Record ==
    \A i \in 1..Len(trace) :
        IsClassic(trace[i]) /\ trace[i].outcome = "non200"
            => NoProtectionRecorded(trace[i].repo)

-----------------------------------------------------------------------------
(* C5 *)

LastName == NameOf(active_repos[idx])

\* C5: on the modern path, when a count c is read from the approvals rule (a
\* zero or absent parameter is no count: line 164 takes it as missing), the
\* approvals column is the decimal string of c, the issue
\* "Required approvals = c, expected 2" is there exactly when c is not 2, with
\* c = 2 there is no approvals issue at all, and with c not 2 the repository
\* is in the non-compliant list.
C5_ApprovalCount ==
    OnModern /\ ApprovalsCount # 0 =>
        LET c == ApprovalsCount
            mismatch == "Required approvals = " \o ToString(c) \o ", expected 2"
        IN /\ row["Required approvals count"] = ToString(c)
           /\ rows[idx]["Required approvals count"] = ToString(c)
           /\ Has(issues, mismatch) <=> c # 2
           /\ c = 2 => \A j \in 1..Len(issues) : issues[j] \notin ApprovalIssues
           /\ c # 2 => /\ InMissing(LastName)
                       /\ ~InOk(LastName)
                       /\ Has(IssuesOf(LastName), mismatch)
           /\ \A j \in 1..Len(issues) :
                 issues[j] \in ApprovalIssues => issues[j] = mismatch

\* a count of 2 read from the second key, the first being zero
C5_WitnessTwo ==
    /\ OnModern
    /\ ApprovalsCount = 2
    /\ Cardinality(RulesOfType("required_approving_review_count")) = 1
    /\ "count" \in DOMAIN LastOfType("required_approving_review_count").v["parameters"].v
    /\ row["Required approvals count"] = "2"

\* a count of 1, flagged
C5_Witness ==
    /\ OnModern
    /\ ApprovalsCount = 1
    /\ Has(issues, "Required approvals = 1, expected 2")
    /\ InMissing(LastName)

-----------------------------------------------------------------------------
(* C6 *)

ColumnAndIssue(ty, col, issue) ==
    /\ row[col] = "YES" <=> Present(ty)
    /\ row[col] = "NO" <=> ~Present(ty)
    /\ Has(issues, issue) <=> ~Present(ty)

\* C6: on the modern path each of the columns for pull_request,
\* restrict_deletions and non_fast_forward is "YES" exactly when a rule of the
\* type is present and its issue is recorded exactly when it is absent; the
\* repository is in the compliant list exactly when those three and an
\* approvals rule with count 2 are present; a repository that lacks only
\* restrict_deletions is non-compliant with the single issue
\* "Restrict deletions rule not enabled".
C6_ModernColumns ==
    OnModern =>
        /\ rows[idx] = row
        /\ row["Default branch protection exists"] = "YES"
        /\ ColumnAndIssue("pull_request", "Required pull request",
                          "Require pull request before merging not enabled")
        /\ ColumnAndIssue("restrict_deletions", "Restrict deletions",
                          "Restrict deletions rule not enabled")
        /\ ColumnAndIssue("non_fast_forward", "Block Force pushes",
                          "Block force pushes rule not enabled")
        /\ InOk(LastName) <=>
              /\ Present("pull_request")
              /\ ApprovalsCount = 2
              /\ Present("restrict_deletions")
              /\ Present("non_fast_forward")
        /\ InOk(LastName) <=> ~InMissing(LastName)
        /\ ( /\ Present("pull_request")
             /\ ApprovalsCount = 2
             /\ ~Present("restrict_deletions")
             /\ Present("non_fast_forward") )
           => /\ InMissing(LastName)
              /\ IssuesOf(LastName) = <<"Restrict deletions rule not enabled">>

\* the repository that lacks only restrict_deletions
C6_Witness ==
    /\ OnModern
    /\ Present("pull_request")
    /\ ApprovalsCount = 2
    /\ ~Present("restrict_deletions")
    /\ Present("non_fast_forward")
    /\ row["Restrict deletions"] = "NO"
    /\ InMissing(LastName)

\* the fully compliant repository
C6_WitnessCompliant ==
    /\ OnModern
    /\ InOk(LastName)
    /\ row["Restrict deletions"] = "YES"

-----------------------------------------------------------------------------
(* C7 *)

\* C7: a failure to write results.csv does not abort the run: the step that
\* fails to write leads to the notifier, which selects its path by the
\* configuration alone, as after a successful write, and the run ends
\* normally.
C7_WriteFailureGoesOn ==
    /\ [][AfterLoop /\ pc' # pc => pc' = "notify"]_vars
    /\ [][pc = "notify" /\ pc' # pc => pc' = "done"]_vars
    /\ [](pc = "notify" =>
            \/ TokenAndChannel /\ ENABLED upload_csv_to_slack
            \/ ~TokenAndChannel /\ Truthy(SLACK_WEBHOOK) /\ ENABLED post_webhook
            \/ ~TokenAndChannel /\ ~Truthy(SLACK_WEBHOOK) /\ ENABLED NoNotification)
    /\ [](pc = "done" =>
            /\ Len(Uploads) = (IF TokenAndChannel THEN 1 ELSE 0)
            /\ Len(Webhooks) = (IF ~TokenAndChannel /\ Truthy(SLACK_WEBHOOK) THEN 1 ELSE 0))

\* the write failed, the run went on to the webhook and ended
C7_Witness ==
    /\ pc = "done"
    /\ csv_file = JNull
    /\ idx > 0
    /\ Len(Webhooks) = 1

\* the write failed and the upload path was still the one selected
C7_WitnessUpload ==
    /\ pc = "done"
    /\ csv_file = JNull
    /\ Len(Uploads) = 1

-----------------------------------------------------------------------------
(* C8 *)

\* C8: for every repository the rules endpoint is queried first, and the
\* classic-protection endpoint is queried exactly when the rules result is
\* empty or none; with a non-empty rules result no classic request is made
\* for the repository and its protection-exists column is "YES".
C8_RulesFirst ==
    /\ \A i \in 1..Len(trace) :
          IsClassic(trace[i]) =>
              /\ i > 1
              /\ IsRules(trace[i - 1])
              /\ trace[i - 1].repo = trace[i].repo
              /\ trace[i - 1].outcome # "raise"
    /\ \A i, j \in 1..Len(trace) :
          /\ IsRules(trace[i]) /\ IsRules(trace[j]) /\ trace[i].repo = trace[j].repo
                => i = j
          /\ IsClassic(trace[i]) /\ IsClassic(trace[j]) /\ trace[i].repo = trace[j].repo
                => i = j
    /\ pc = "loop" /\ idx > 0 =>
          LET last == trace[Len(trace)]
          IN /\ last.repo = LastName
             /\ Truthy(rules) <=> IsRules(last)
             /\ ~Truthy(rules) <=> IsClassic(last)
             /\ Truthy(rules) =>
                   /\ last.outcome = "200"
                   /\ rows[idx]["Default branch protection exists"] = "YES"
    /\ pc = "aborted" /\ IsClassic(trace[Len(trace)]) => ~Truthy(rules)

\* the first repository had rules and no classic query, the second had none
\* and its classic protection was queried
C8_Witness ==
    /\ pc = "loop"
    /\ idx = 2
    /\ Len(trace) >= 3
    /\ IsRules(trace[Len(trace) - 2])
    /\ trace[Len(trace) - 2].repo = NameOf(active_repos[1])
    /\ IsRules(trace[Len(trace) - 1])
    /\ IsClassic(trace[Len(trace)])
    /\ rows[1]["Default branch protection exists"] = "YES"

-----------------------------------------------------------------------------
(* C9 *)

RulesCalls == SelectSeq(trace, IsRules)
Occurrences(n) ==
    Cardinality({j \in 1..Len(ok) : ok[j] = n})
        + Cardinality({j \in 1..Len(missing) : missing[j].repo = n})

\* C9: the repositories are checked in listing order, and after the k-th was
\* processed, on whichever path, there are exactly k rows, the i-th for the
\* i-th listed non-archived repository, and every processed repository is in
\* exactly one of the two lists: in the compliant one exactly when its issue
\* list is empty.
C9_RowsInOrder ==
    /\ Len(rows) = idx
    /\ idx <= Len(active_repos)
    /\ \A i \in 1..Len(rows) :
          /\ rows[i]["Repository"] = NameOf(active_repos[i])
          /\ rows[i]["Default Branch"] = BranchOf(active_repos[i])
          /\ Occurrences(NameOf(active_repos[i])) = 1
    /\ Len(ok) + Len(missing) = idx
    /\ \A j \in 1..Len(missing) : Len(missing[j].issues) > 0
    /\ Len(RulesCalls) \in {idx, idx + 1}
    /\ Len(RulesCalls) <= Len(active_repos)
    /\ \A i \in 1..Len(RulesCalls) : RulesCalls[i].repo = NameOf(active_repos[i])
    /\ OnModern \/ OnClassic =>
          /\ InOk(LastName) <=> issues = <<>>
          /\ InMissing(LastName) <=> issues # <<>>
          /\ InMissing(LastName) => IssuesOf(LastName) = issues
    /\ OnNone => InMissing(LastName)

\* two repositories processed, the first compliant, the second not
C9_Witness ==
    /\ idx = 2
    /\ pc = "loop"
    /\ ok = <<NameOf(active_repos[1])>>
    /\ Len(missing) = 1
    /\ missing[1].repo = NameOf(active_repos[2])
    /\ rows[2]["Repository"] = NameOf(active_repos[2])

-----------------------------------------------------------------------------
(* C10 *)

AllYes(r) ==
    /\ r["Default branch protection exists"] = "YES"
    /\ r["Required pull request"] = "YES"
    /\ r["Required approvals count"] = "2"
    /\ r["Restrict deletions"] = "YES"
    /\ r["Block Force pushes"] = "YES"

\* C10: every repository in the compliant list, on the modern and on the
\* classic path alike, has a record with "YES" in the four flag columns and
\* "2" as its approval count.
C10_CompliantAgrees ==
    \A i \in 1..Len(rows) : InOk(rows[i]["Repository"]) => AllYes(rows[i])

\* what holds of the compliant list: all of it on the modern path; on the
\* classic path only protection, pull request and the count
C10_CompliantModern ==
    /\ OnModern /\ InOk(LastName) => AllYes(rows[idx])
    /\ OnClassic /\ InOk(LastName) =>
          /\ rows[idx]["Default branch protection exists"] = "YES"
          /\ rows[idx]["Required pull request"] = "YES"
          /\ rows[idx]["Required approvals count"] = "2"

=============================================================================
